---- MODULE Spec2Model ----
(***************************************************************************)
(* A model of src/src/my_arc.rs: one InnerArc allocation (payload plus the *)
(* strong and weak atomic counters), the MyArc and MyWeak handles to it,   *)
(* and threads that run the handles' operations one atomic access at a     *)
(* time.                                                                   *)
(*                                                                         *)
(* Handles carry no state of their own (each is one pointer to the block), *)
(* so they are counted: idleStrong / idleWeak are the handles no call is   *)
(* running on; a thread inside a call that borrows or owns a handle holds  *)
(* it in its program counter.                                              *)
(*                                                                         *)
(* The contents of a deallocated block are indeterminate.  Every access to *)
(* it is recorded in uaf, a load from it may return any counter value      *)
(* (Load), a store to it is lost, and the variables strong, weak and value *)
(* are parked at 0 when the block is freed: they carry no information.     *)
(***************************************************************************)
EXTENDS Integers, FiniteSets, Sequences, TLC

\* The threads that run operations concurrently: every race the operations
\* have is between two calls.
Threads == {"t1", "t2"}

\* Most strong handles / weak handles alive at once.
MaxStrong == 3
MaxWeak == 2
\* Width of the counters in bits (usize in the source).
CounterBits == 3
\* Payload values are 0..MaxValue.
MaxValue == 1
\* Deallocations and destructor runs are counted up to MaxEvents.
MaxEvents == 2

Modulus == 2 ^ CounterBits
Counter == 0 .. (Modulus - 1)
Values == 0 .. MaxValue

VARIABLES
    strong,        \* InnerArc.strong
    weak,          \* InnerArc.weak
    value,         \* InnerArc.value
    freed,         \* how many times the block has been deallocated
    dropped,       \* how many times the payload's destructor has run
    moved,         \* the payload has been moved out by try_unwrap
    uaf,           \* a deallocated block has been read or written
    idleStrong,    \* MyArc handles no call is running on
    idleWeak,      \* MyWeak handles no call is running on
    pc,            \* per thread: where it is inside a call
    strong_count,  \* per thread: upgrade's local strong_count
    got,           \* per thread: the value (payload or count) a call returned
    sawLive        \* per thread in upgrade: a strong handle was live during the call

arcVars == <<strong, weak, value, freed, dropped, moved, uaf, idleStrong, idleWeak,
             pc, strong_count, got, sawLive>>

\* The containers of src/src/my_deque.rs and src/src/my_vec.rs.
VARIABLES
    mem,              \* the heap: per buffer, its slots, or Free
    dqs,              \* per deque name: the MyDeque fields, or NoDeque
    it,               \* the iterator in use, or NoIter
    yielded,          \* the slots the iterator in use has yielded so far
    vec,              \* the MyVec: its fields and its buffer, or NoVec
    ret,              \* what the last container call returned
    faults,           \* the memory faults container calls have committed
    overflow_checks,  \* the build panics on integer overflow (debug profile)
    list,             \* the List of src/src/six.rs: head, tail and its nodes
    rcs               \* per name: the InnerRc block of src/src/my_rc.rs and its handles

containerVars == <<mem, dqs, it, yielded, vec, ret, faults, overflow_checks, list, rcs>>

vars == <<arcVars, containerVars>>

----------------------------------------------------------------------------
\* Helpers

Min(a, b) == IF a < b THEN a ELSE b

Inc(c) == (c + 1) % Modulus
Dec(c) == (c + Modulus - 1) % Modulus

Allocated == freed = 0

\* The values an atomic load of counter c may return.
Load(c) == IF Allocated THEN {c} ELSE Counter

\* The counter after a store of v (lost on a deallocated block).
Store(c, v) == IF Allocated THEN v ELSE c

\* The values a read of the payload may return.
PayloadValid == Allocated /\ dropped = 0 /\ ~moved
ReadValue == IF PayloadValid THEN {value} ELSE Values

\* Program counters at which the thread holds a live strong handle.
StrongHolding == {"mut_held", "mut_none", "unwrap_take", "unwrap_err", "up_some"}
\* Program counters at which the thread holds a live weak handle.
WeakHolding == {"upgrade_cas", "up_some", "up_none", "up_panic"}
\* Program counters inside MyWeak::upgrade, and at its return.
InUpgrade == {"upgrade_cas"}
UpgradeReturned == {"up_some", "up_none"}

Holders(pcs, S) == Cardinality({t \in Threads : pcs[t] \in S})

LiveStrongOf(idle, pcs) == idle + Holders(pcs, StrongHolding)
LiveWeakOf(idle, pcs) == idle + Holders(pcs, WeakHolding)

LiveStrong == LiveStrongOf(idleStrong, pc)
LiveWeak == LiveWeakOf(idleWeak, pc)

Quiescent == \A t \in Threads : pc[t] = "idle"

\* The strong handles live other than the one thread t's upgrade has made.
OthersLive(t, idle, pcs) ==
    LiveStrongOf(idle, pcs) - (IF pcs[t] = "up_some" THEN 1 ELSE 0)

\* sawLive after a step: for a thread inside upgrade (or at its return),
\* whether a strong handle, other than the one the call itself makes, has
\* been live at some point since the call began.
Track ==
    sawLive' = [t \in Threads |->
        IF pc'[t] \in InUpgrade \cup UpgradeReturned
        THEN (IF pc[t] \in InUpgrade \cup UpgradeReturned THEN sawLive[t] ELSE FALSE)
             \/ OthersLive(t, idleStrong, pc) > 0
             \/ OthersLive(t, idleStrong', pc') > 0
        ELSE FALSE]

----------------------------------------------------------------------------
\* Container values

\* Most elements a container holds at once.
MaxLen == 3
\* Element values are 1..MaxElem.
MaxElem == 2
IndexBits == 6

Elems == 1 .. MaxElem
\* A slot of MaybeUninit<T> that holds no element: never written, or moved
\* out of, or dropped in place.
Uninit == 0

\* Buffers that can be allocated at once (two deques, and the new buffer of a
\* grow before the old one is deallocated).
BufIds == {1, 2, 3}
\* A buffer that is not allocated has no slots.
Free == <<>>

\* The allocation of a zero-sized layout: a pointer to no slot at all.
ZeroSized == 0
Bufs == BufIds \cup {ZeroSized}
DequeNames == {"a", "b"}
\* No deque under this name: no buffer (buffers are numbered from 1).
NoDeque == [buf |-> -1, cap |-> 0, head |-> 0, tail |-> 0, len |-> 0]
NoIter == [kind |-> "none", d |-> "a", buf |-> 0, base |-> 0, head |-> 0,
           tail |-> 0, idx |-> 0, len |-> 0, cap |-> 0]
NoVec == [cap |-> 0, len |-> 0, buf |-> <<>>]
NoRet == [kind |-> "nothing", val |-> 0]
NoList == [head |-> 0, tail |-> 0, nodes |-> <<>>]
RcNames == {"a", "b"}
NoRc == [count |-> 0, value |-> 0, handles |-> 0, freed |-> 0, dropped |-> 0]

Ret(k, v) == [kind |-> k, val |-> v]

\* No deque and no vector has been constructed.
NoContainers ==
    /\ mem = [b \in Bufs |-> Free]
    /\ dqs = [d \in DequeNames |-> NoDeque]
    /\ it = NoIter
    /\ yielded = <<>>
    /\ vec = NoVec
    /\ ret = NoRet
    /\ faults = {}
    /\ overflow_checks = FALSE
    /\ list = NoList
    /\ rcs = [r \in RcNames |-> NoRc]

----------------------------------------------------------------------------
\* MyArc::new

ArcNew ==
    /\ strong = 1
    /\ weak = 1
    /\ value \in Values
    /\ freed = 0
    /\ dropped = 0
    /\ moved = FALSE
    /\ uaf = FALSE
    /\ idleStrong = 1
    /\ idleWeak = 0
    /\ pc = [t \in Threads |-> "idle"]
    /\ strong_count = [t \in Threads |-> 0]
    /\ got = [t \in Threads |-> 0]
    /\ sawLive = [t \in Threads |-> FALSE]

Init ==
    /\ ArcNew
    /\ NoContainers

----------------------------------------------------------------------------
\* Shared pieces of the operations

\* Room for one more strong handle (an upgrade under way has reserved one).
StrongRoom == LiveStrong + Holders(pc, InUpgrade) < MaxStrong
WeakRoom == LiveWeak < MaxWeak

\* A drop that runs the payload's destructor and never deallocates the block.
BoxLeak ==
    /\ dropped' = Min(dropped + 1, MaxEvents)
    /\ UNCHANGED <<freed, uaf, strong, weak, value, moved>>

\* drop(Box::from_raw(ptr)) on a Box<InnerArc<T>>: the drop glue runs the
\* payload's destructor, then the block is deallocated.
BoxDrop ==
    /\ dropped' = Min(dropped + 1, MaxEvents)
    /\ freed' = Min(freed + 1, MaxEvents)
    /\ uaf' = (uaf \/ ~Allocated)
    /\ strong' = 0
    /\ weak' = 0
    /\ value' = 0
    /\ UNCHANGED moved

----------------------------------------------------------------------------
\* impl Clone for MyArc: strong.fetch_add(1, Relaxed)

\* A clone that hands out the new handle without the fetch_add.
CloneNoInc(t) ==
    /\ pc[t] = "idle"
    /\ idleStrong >= 1
    /\ StrongRoom
    /\ idleStrong' = idleStrong + 1
    /\ uaf' = (uaf \/ ~Allocated)
    /\ UNCHANGED <<strong, weak, value, freed, dropped, moved, idleWeak, pc,
                   strong_count, got>>
    /\ Track
    /\ UNCHANGED containerVars

Clone(t) ==
    /\ pc[t] = "idle"
    /\ idleStrong >= 1
    /\ StrongRoom
    /\ strong' = Store(strong, Inc(strong))
    /\ uaf' = (uaf \/ ~Allocated)
    /\ idleStrong' = idleStrong + 1
    /\ UNCHANGED <<weak, value, freed, dropped, moved, idleWeak, pc, strong_count, got>>
    /\ Track
    /\ UNCHANGED containerVars

\* MyArc::downgrade: weak.fetch_add(1, Relaxed)

Downgrade(t) ==
    /\ pc[t] = "idle"
    /\ idleStrong >= 1
    /\ WeakRoom
    /\ weak' = Store(weak, Inc(weak))
    /\ uaf' = (uaf \/ ~Allocated)
    /\ idleWeak' = idleWeak + 1
    /\ UNCHANGED <<strong, value, freed, dropped, moved, idleStrong, pc, strong_count, got>>
    /\ Track
    /\ UNCHANGED containerVars

\* impl Clone for MyWeak: weak.fetch_add(1, Relaxed)

WeakClone(t) ==
    /\ pc[t] = "idle"
    /\ idleWeak >= 1
    /\ WeakRoom
    /\ weak' = Store(weak, Inc(weak))
    /\ uaf' = (uaf \/ ~Allocated)
    /\ idleWeak' = idleWeak + 1
    /\ UNCHANGED <<strong, value, freed, dropped, moved, idleStrong, pc, strong_count, got>>
    /\ Track
    /\ UNCHANGED containerVars

\* impl Deref for MyArc / get_value_ref: read the payload through the pointer

Deref(t) ==
    /\ pc[t] = "idle"
    /\ idleStrong >= 1
    /\ \E v \in ReadValue :
          got' = [got EXCEPT ![t] = v]
    /\ uaf' = (uaf \/ ~Allocated)
    /\ pc' = [pc EXCEPT ![t] = "deref_ret"]
    /\ UNCHANGED <<strong, weak, value, freed, dropped, moved, idleStrong, idleWeak,
                   strong_count>>
    /\ Track
    /\ UNCHANGED containerVars

\* MyArc::get_strong_count: strong.load(SeqCst)

GetStrongCount(t) ==
    /\ pc[t] = "idle"
    /\ idleStrong >= 1
    /\ \E v \in Load(strong) :
          got' = [got EXCEPT ![t] = v]
    /\ uaf' = (uaf \/ ~Allocated)
    /\ pc' = [pc EXCEPT ![t] = "count_ret"]
    /\ UNCHANGED <<strong, weak, value, freed, dropped, moved, idleStrong, idleWeak,
                   strong_count>>
    /\ Track
    /\ UNCHANGED containerVars

\* MyArc::get_weak_count: weak.load(SeqCst)

GetWeakCount(t) ==
    /\ pc[t] = "idle"
    /\ idleStrong >= 1
    /\ \E v \in Load(weak) :
          got' = [got EXCEPT ![t] = v]
    /\ uaf' = (uaf \/ ~Allocated)
    /\ pc' = [pc EXCEPT ![t] = "count_ret"]
    /\ UNCHANGED <<strong, weak, value, freed, dropped, moved, idleStrong, idleWeak,
                   strong_count>>
    /\ Track
    /\ UNCHANGED containerVars

----------------------------------------------------------------------------
\* MyWeak::upgrade

\* let mut strong_count = inner.strong.load(Acquire); while strong_count != 0
UpgradeLoad(t) ==
    /\ pc[t] = "idle"
    /\ idleWeak >= 1
    /\ StrongRoom
    /\ \E v \in Load(strong) :
          /\ strong_count' = [strong_count EXCEPT ![t] = v]
          /\ pc' = [pc EXCEPT ![t] = IF v = 0 THEN "up_none" ELSE "upgrade_cas"]
    /\ uaf' = (uaf \/ ~Allocated)
    /\ idleWeak' = idleWeak - 1
    /\ UNCHANGED <<strong, weak, value, freed, dropped, moved, idleStrong, got>>
    /\ Track
    /\ UNCHANGED containerVars

\* An exchange whose failure branch drops the value it returned, so the loop
\* retries with the count it read first.
UpgradeCasStale(t) ==
    /\ pc[t] = "upgrade_cas"
    /\ \E cur \in Load(strong) :
          IF cur = strong_count[t]
          THEN /\ strong' = Store(strong, Inc(strong_count[t]))
               /\ pc' = [pc EXCEPT ![t] = "up_some"]
               /\ UNCHANGED strong_count
          ELSE UNCHANGED <<strong, strong_count, pc>>
    /\ uaf' = (uaf \/ ~Allocated)
    /\ UNCHANGED <<weak, value, freed, dropped, moved, idleStrong, idleWeak, got>>
    /\ Track
    /\ UNCHANGED containerVars

\* compare_exchange(strong_count, strong_count + 1, AcqRel, Acquire), and the
\* loop test on the value a failed exchange returns. strong_count + 1 is a
\* plain usize addition: on the largest value it wraps to 0, or panics before
\* the exchange in a build with overflow checks.
UpgradeCas(t) ==
    /\ pc[t] = "upgrade_cas"
    /\ IF overflow_checks /\ strong_count[t] = Modulus - 1
       THEN /\ pc' = [pc EXCEPT ![t] = "up_panic"]
            /\ UNCHANGED <<strong, strong_count, uaf>>
       ELSE /\ \E cur \in Load(strong) :
                  IF cur = strong_count[t]
                  THEN /\ strong' = Store(strong, Inc(strong_count[t]))
                       /\ pc' = [pc EXCEPT ![t] = "up_some"]
                       /\ UNCHANGED strong_count
                  ELSE /\ strong_count' = [strong_count EXCEPT ![t] = cur]
                       /\ pc' = [pc EXCEPT ![t] =
                                    IF cur = 0 THEN "up_none" ELSE "upgrade_cas"]
                       /\ UNCHANGED strong
            /\ uaf' = (uaf \/ ~Allocated)
    /\ UNCHANGED <<weak, value, freed, dropped, moved, idleStrong, idleWeak, got>>
    /\ Track
    /\ UNCHANGED containerVars

----------------------------------------------------------------------------
\* MyArc::get_mut_ref

\* if inner_ptr.strong.load(SeqCst) == 1 { return Some(&mut value) } None
GetMutLoad(t) ==
    /\ pc[t] = "idle"
    /\ idleStrong >= 1
    /\ \E v \in Load(strong) :
          pc' = [pc EXCEPT ![t] = IF v = 1 THEN "mut_held" ELSE "mut_none"]
    /\ uaf' = (uaf \/ ~Allocated)
    /\ idleStrong' = idleStrong - 1
    /\ UNCHANGED <<strong, weak, value, freed, dropped, moved, idleWeak, strong_count, got>>
    /\ Track
    /\ UNCHANGED containerVars

\* the caller writes through the &mut T it was given, and the borrow ends
MutWrite(t) ==
    /\ pc[t] = "mut_held"
    /\ \E v \in Values :
          value' = Store(value, v)
    /\ uaf' = (uaf \/ ~Allocated)
    /\ idleStrong' = idleStrong + 1
    /\ pc' = [pc EXCEPT ![t] = "idle"]
    /\ UNCHANGED <<strong, weak, freed, dropped, moved, idleWeak, strong_count, got>>
    /\ Track
    /\ UNCHANGED containerVars

----------------------------------------------------------------------------
\* MyArc::try_unwrap

\* A uniqueness test made with fetch_sub, which leaves the count one lower
\* when the test fails.
UnwrapLoadDec(t) ==
    /\ pc[t] = "idle"
    /\ idleStrong >= 1
    /\ \E v \in Load(strong) :
          /\ strong' = Store(strong, Dec(v))
          /\ pc' = [pc EXCEPT ![t] = IF v = 1 THEN "unwrap_take" ELSE "unwrap_err"]
    /\ uaf' = (uaf \/ ~Allocated)
    /\ idleStrong' = idleStrong - 1
    /\ UNCHANGED <<weak, value, freed, dropped, moved, idleWeak, strong_count, got>>
    /\ Track
    /\ UNCHANGED containerVars

\* if self.get_strong_count() == 1
UnwrapLoad(t) ==
    /\ pc[t] = "idle"
    /\ idleStrong >= 1
    /\ \E v \in Load(strong) :
          pc' = [pc EXCEPT ![t] = IF v = 1 THEN "unwrap_take" ELSE "unwrap_err"]
    /\ uaf' = (uaf \/ ~Allocated)
    /\ idleStrong' = idleStrong - 1
    /\ UNCHANGED <<strong, weak, value, freed, dropped, moved, idleWeak, strong_count, got>>
    /\ Track
    /\ UNCHANGED containerVars

\* Box::from_raw, the payload moved out of the box, mem::forget(self), and the
\* rest of the box deallocated where `unboxed` goes out of scope
UnwrapTake(t) ==
    /\ pc[t] = "unwrap_take"
    /\ \E v \in ReadValue :
          got' = [got EXCEPT ![t] = v]
    /\ moved' = TRUE
    /\ freed' = Min(freed + 1, MaxEvents)
    /\ uaf' = (uaf \/ ~Allocated)
    /\ strong' = 0
    /\ weak' = 0
    /\ value' = 0
    /\ pc' = [pc EXCEPT ![t] = "unwrap_ok"]
    /\ UNCHANGED <<dropped, idleStrong, idleWeak, strong_count>>
    /\ Track
    /\ UNCHANGED containerVars

----------------------------------------------------------------------------
\* impl Drop for MyArc

\* if inner.strong.fetch_sub(1, Release) != 1 { return; }
DropDec(t) ==
    /\ pc[t] = "idle"
    /\ idleStrong >= 1
    /\ \E prior \in Load(strong) :
          /\ strong' = Store(strong, Dec(prior))
          /\ pc' = [pc EXCEPT ![t] = IF prior = 1 THEN "drop_box" ELSE "idle"]
    /\ uaf' = (uaf \/ ~Allocated)
    /\ idleStrong' = idleStrong - 1
    /\ UNCHANGED <<weak, value, freed, dropped, moved, idleWeak, strong_count, got>>
    /\ Track
    /\ UNCHANGED containerVars

\* drop(Box::from_raw(self.ptr.as_ptr()));
DropBox(t) ==
    /\ pc[t] = "drop_box"
    /\ BoxDrop
    /\ pc' = [pc EXCEPT ![t] = "drop_weak"]
    /\ UNCHANGED <<idleStrong, idleWeak, strong_count, got>>
    /\ Track
    /\ UNCHANGED containerVars

\* if inner.weak.fetch_sub(1, Release) == 1
DropWeakDec(t) ==
    /\ pc[t] = "drop_weak"
    /\ \E prior \in Load(weak) :
          /\ weak' = Store(weak, Dec(prior))
          /\ pc' = [pc EXCEPT ![t] = IF prior = 1 THEN "drop_dealloc" ELSE "idle"]
    /\ uaf' = (uaf \/ ~Allocated)
    /\ UNCHANGED <<strong, value, freed, dropped, moved, idleStrong, idleWeak,
                   strong_count, got>>
    /\ Track
    /\ UNCHANGED containerVars

\* fence(Acquire); drop(Box::from_raw(self.ptr.as_ptr()));
DropDealloc(t) ==
    /\ pc[t] = "drop_dealloc"
    /\ BoxDrop
    /\ pc' = [pc EXCEPT ![t] = "idle"]
    /\ UNCHANGED <<idleStrong, idleWeak, strong_count, got>>
    /\ Track
    /\ UNCHANGED containerVars

----------------------------------------------------------------------------
\* impl Drop for MyWeak

\* if inner.weak.fetch_sub(1, Release) == 1
WeakDropDec(t) ==
    /\ pc[t] = "idle"
    /\ idleWeak >= 1
    /\ \E prior \in Load(weak) :
          /\ weak' = Store(weak, Dec(prior))
          /\ pc' = [pc EXCEPT ![t] = IF prior = 1 THEN "wdrop_box" ELSE "idle"]
    /\ uaf' = (uaf \/ ~Allocated)
    /\ idleWeak' = idleWeak - 1
    /\ UNCHANGED <<strong, value, freed, dropped, moved, idleStrong, strong_count, got>>
    /\ Track
    /\ UNCHANGED containerVars

\* fence(Acquire); drop(Box::from_raw(self.ptr.as_ptr()));
WeakDropBox(t) ==
    /\ pc[t] = "wdrop_box"
    /\ BoxDrop
    /\ pc' = [pc EXCEPT ![t] = "idle"]
    /\ UNCHANGED <<idleStrong, idleWeak, strong_count, got>>
    /\ Track
    /\ UNCHANGED containerVars

----------------------------------------------------------------------------
\* A call returns to its caller, handing back the handles it held.

Returned == {"up_some", "up_none", "up_panic", "mut_none", "unwrap_err", "unwrap_ok",
             "deref_ret", "count_ret"}

Return(t) ==
    /\ pc[t] \in Returned
    /\ idleStrong' = idleStrong + (IF pc[t] \in StrongHolding THEN 1 ELSE 0)
    /\ idleWeak' = idleWeak + (IF pc[t] \in WeakHolding THEN 1 ELSE 0)
    /\ pc' = [pc EXCEPT ![t] = "idle"]
    /\ strong_count' = [strong_count EXCEPT ![t] = 0]
    /\ got' = [got EXCEPT ![t] = 0]
    /\ UNCHANGED <<strong, weak, value, freed, dropped, moved, uaf>>
    /\ Track
    /\ UNCHANGED containerVars

----------------------------------------------------------------------------

Next ==
    \E t \in Threads :
        \/ Clone(t)
        \/ Downgrade(t)
        \/ WeakClone(t)
        \/ Deref(t)
        \/ GetStrongCount(t)
        \/ GetWeakCount(t)
        \/ UpgradeLoad(t)
        \/ UpgradeCas(t)
        \/ GetMutLoad(t)
        \/ MutWrite(t)
        \/ UnwrapLoad(t)
        \/ UnwrapTake(t)
        \/ DropDec(t)
        \/ DropBox(t)
        \/ DropWeakDec(t)
        \/ DropDealloc(t)
        \/ WeakDropDec(t)
        \/ WeakDropBox(t)
        \/ Return(t)

Spec == Init /\ [][Next]_vars

\* The operations on strong handles that involve neither a weak handle nor
\* try_unwrap: clone, drop, and the two accesses to the payload.
NextStrongOnly ==
    \E t \in Threads :
        \/ Clone(t)
        \/ Deref(t)
        \/ GetMutLoad(t)
        \/ MutWrite(t)
        \/ DropDec(t)
        \/ DropBox(t)
        \/ DropWeakDec(t)
        \/ DropDealloc(t)
        \/ Return(t)

SpecStrongOnly == Init /\ [][NextStrongOnly]_vars

TypeOK ==
    /\ strong \in Counter
    /\ weak \in Counter
    /\ value \in Values
    /\ freed \in 0 .. MaxEvents
    /\ dropped \in 0 .. MaxEvents
    /\ moved \in BOOLEAN
    /\ uaf \in BOOLEAN
    /\ idleStrong \in 0 .. MaxStrong
    /\ idleWeak \in 0 .. MaxWeak
    /\ strong_count \in [Threads -> Counter]
    /\ got \in [Threads -> Values \cup Counter]
    /\ sawLive \in [Threads -> BOOLEAN]

----------------------------------------------------------------------------
\* Claims

LiveStrongNext == LiveStrongOf(idleStrong', pc')

\* C1: in every reachable state the control block is still allocated while
\* any weak handle is live, so no operation on a weak handle touches a
\* deallocated block.
C1_BlockAllocatedWhileWeakLive == LiveWeak > 0 => Allocated

\* C2: the control block is deallocated at most once, and only by the
\* decrement that takes weak_count from 1 to 0 (the end of the last strong
\* drop, or a weak drop); the first step of the strong drop and try_unwrap
\* never free it.
C2_DeallocatedOnceByWeakZero ==
    [][freed' # freed =>
          /\ freed = 0
          /\ \E t \in Threads :
                /\ pc[t] \in {"drop_dealloc", "wdrop_box"}
                /\ pc'[t] = "idle"]_vars

\* C3: the payload's destructor runs exactly once, in the strong drop that
\* observed strong_count == 1 before its decrement, and in no other drop.
C3_DestructorExactlyOnce ==
    /\ [][dropped' # dropped =>
             /\ dropped = 0
             /\ \E t \in Threads : pc[t] = "drop_box" /\ pc'[t] = "drop_weak"]_vars
    /\ []((Quiescent /\ LiveStrong = 0 /\ ~moved) => dropped = 1)

\* C4: whenever a strong handle is live, the payload has been neither
\* destroyed nor moved out and the control block is allocated.
C4_StrongHandleImpliesPayload == LiveStrong > 0 => PayloadValid

\* C5: over every sequence of clone and drop on strong handles, starting
\* from strong_count == 1 after new, strong_count equals the number of live
\* strong handles (and the block that holds it is allocated while one is live).
C5_StrongCountIsLiveHandles ==
    /\ LiveStrong > 0 => Allocated
    /\ Allocated => strong = LiveStrong

\* C5 witness: two clones have been made (three live handles, counter 3)
\* and the calls have returned.
C5_Witness == Allocated /\ LiveStrong = 3 /\ strong = 3 /\ Quiescent

\* C6: after every sequence of downgrade, weak clone, weak drop and strong
\* drop, weak_count equals the number of live weak handles, plus 1 if a
\* strong handle is live.
C6_WeakCountIsLiveHandles ==
    (Quiescent /\ (LiveStrong > 0 \/ LiveWeak > 0)) =>
        /\ Allocated
        /\ weak = LiveWeak + (IF LiveStrong > 0 THEN 1 ELSE 0)

\* C7: no resurrection: once the last strong handle's drop has taken
\* strong_count to 0 and destroyed the payload, no upgrade returns a handle
\* and no strong handle exists again.
C7_NoResurrection ==
    [][(dropped > 0 /\ LiveStrong = 0) => LiveStrongNext = 0]_vars

\* C8: upgrade returns a strong handle only if at least one strong handle
\* was live at some point during the call (one direction of the equivalence
\* "a strong handle if and only if one was live during the call").
C8_UpgradeSomeOnlyIfLive ==
    \A t \in Threads : pc[t] = "up_some" => sawLive[t]

\* C9: get_mut_ref returns a mutable reference if and only if exactly one
\* strong handle exists at call time (None when there are two or more), and
\* a read through a strong handle returns the payload as last written.
C9_GetMutRefIffUnique ==
    [][\A t \in Threads :
          pc[t] = "idle" =>
             /\ pc'[t] = "mut_held" => LiveStrong = 1
             /\ pc'[t] = "mut_none" => LiveStrong >= 2
             /\ pc'[t] = "deref_ret" => (PayloadValid /\ got'[t] = value)]_vars

\* C10: try_unwrap returns Ok(payload) if and only if exactly one strong
\* handle exists; otherwise it returns Err with the handle, and the counters
\* and the payload are as before the call.
C10_TryUnwrapIffUnique ==
    [][\A t \in Threads :
          /\ (pc[t] = "idle" /\ pc'[t] = "unwrap_take") => LiveStrong = 1
          /\ (pc[t] = "idle" /\ pc'[t] = "unwrap_err") =>
                /\ LiveStrong >= 2
                /\ UNCHANGED <<strong, weak, value, freed, dropped, moved>>
          /\ (pc[t] = "unwrap_take" /\ pc'[t] = "unwrap_ok") =>
                (PayloadValid /\ got'[t] = value)]_vars


\* C11: after try_unwrap has succeeded while weak handles are live, the
\* allocation is as after the drop of the last strong handle: strong_count is
\* 0, the implicit self-weak reference is released (weak_count equals the number
\* of live weak handles) and the block is still allocated.
C11_UnwrapLeavesBlockForWeak ==
    \A t \in Threads :
        (pc[t] = "unwrap_ok" /\ LiveWeak > 0) =>
            (Allocated /\ strong = 0 /\ weak = LiveWeak)

\* A weak decrement has just observed 1, i.e. weak_count reaches 0.
WeakReachesZero ==
    \E t \in Threads :
        /\ pc[t] # pc'[t]
        /\ pc'[t] \in {"drop_dealloc", "wdrop_box"}

----------------------------------------------------------------------------
\* test_multithreaded_ref_counting: the original handle stays live while
\* clones of it are made, used and dropped by the threads.

\* A drop whose fetch_sub is split into a load and a later store.
DropCloneRacy(t) ==
    \/ /\ pc[t] = "idle"
       /\ idleStrong >= 2
       /\ strong_count' = [strong_count EXCEPT ![t] = strong]
       /\ pc' = [pc EXCEPT ![t] = "drop_store"]
       /\ UNCHANGED <<strong, weak, value, freed, dropped, moved, uaf, idleStrong,
                      idleWeak, got>>
       /\ Track
       /\ UNCHANGED containerVars
    \/ /\ pc[t] = "drop_store"
       /\ idleStrong >= 2
       /\ strong' = Dec(strong_count[t])
       /\ idleStrong' = idleStrong - 1
       /\ strong_count' = [strong_count EXCEPT ![t] = 0]
       /\ pc' = [pc EXCEPT ![t] = "idle"]
       /\ UNCHANGED <<weak, value, freed, dropped, moved, uaf, idleWeak, got>>
       /\ Track
       /\ UNCHANGED containerVars

\* A thread drops its clone (the closure's arc_clone goes out of scope).
DropClone(t) ==
    /\ LiveStrong >= 2
    /\ DropDec(t)

NextClones ==
    \E t \in Threads :
        \/ Clone(t)
        \/ Deref(t)
        \/ GetStrongCount(t)
        \/ DropClone(t)
        \/ Return(t)

SpecClones == Init /\ [][NextClones]_vars

C14_AllDroppedAllReleased ==
    (Quiescent /\ LiveStrong = 0 /\ LiveWeak = 0) =>
        (freed >= 1 /\ (dropped >= 1 \/ moved))

\* All handles have been dropped, none was consumed by try_unwrap.
C14_Witness ==
    /\ Quiescent
    /\ LiveStrong = 0
    /\ LiveWeak = 0
    /\ ~moved
    /\ dropped >= 1
    /\ freed >= 1


----------------------------------------------------------------------------
\* Upgrades running while other threads clone, upgrade and drop strong handles
\* of the same allocation.
NextUpgrade ==
    \E t \in Threads :
        \/ Clone(t)
        \/ Downgrade(t)
        \/ UpgradeLoad(t)
        \/ UpgradeCas(t)
        \/ DropDec(t)
        \/ DropBox(t)
        \/ DropWeakDec(t)
        \/ DropDealloc(t)
        \/ Return(t)

\* A thread inside upgrade's loop keeps running: its next compare_exchange is
\* eventually executed.
SpecUpgradeFair ==
    Init /\ [][NextUpgrade]_vars /\ \A t \in Threads : WF_vars(UpgradeCas(t))

\* C15 as stated, for a block that stays allocated: every call to upgrade
\* returns Some or None, whatever the other threads do to the strong count
\* meanwhile.
C15_UpgradeTerminates ==
    \A t \in Threads :
        (pc[t] = "upgrade_cas") ~> (pc[t] \in UpgradeReturned \/ ~Allocated)

\* C15: every iteration of upgrade's loop completes, and it either returns or
\* goes on with a value of strong_count different from the one it has just
\* tried: the loop is left as soon as one exchange finds the counter as it was
\* last read.
C15_UpgradeIterationProgress ==
    \A t \in Threads :
        \/ []<>(pc[t] # "upgrade_cas")
        \/ []<><<strong_count'[t] # strong_count[t]>>_vars

\* An upgrade is in its loop and the counter has changed since it was read, so
\* the next exchange fails and the loop goes round.
C15_Witness ==
    \E t \in Threads :
        /\ pc[t] = "upgrade_cas"
        /\ Allocated
        /\ strong # strong_count[t]
        /\ strong > 0


\* C16: when an upgrade races with the drop of the last strong handle, either
\* the upgrade returns None and the drop destroys the payload, or the upgrade
\* returns a handle and the drop does not destroy it: an upgrade never holds a
\* handle it has just been given to a payload that a drop has destroyed.
C16_UpgradeNeverToDestroyed ==
    \A t \in Threads : pc[t] = "up_some" => dropped = 0

\* C17: the decision to move the payload out and free the block is taken on an
\* atomic read-modify-write: at the moment try_unwrap takes the payload of an
\* allocated block, its handle is the only strong handle, so no concurrent
\* upgrade has returned a strong handle in between.
C17_UnwrapDecidesAtomically ==
    [][\A t \in Threads :
          (pc[t] = "unwrap_take" /\ pc'[t] = "unwrap_ok" /\ Allocated) =>
              LiveStrong = 1]_vars

\* C18: while the mutable access granted by get_mut_ref is in use, the handle
\* it was granted through is the only strong handle of the allocation.
C18_MutAccessExclusive ==
    (Allocated /\ \E t \in Threads : pc[t] = "mut_held") => LiveStrong = 1


LiveWeakNext == LiveWeakOf(idleWeak', pc')

\* Thread t takes a step of a call that fails: get_mut_ref returning None,
\* try_unwrap returning Err, or a step of an upgrade that is not a successful
\* exchange (the first load, a failed exchange, the return of None).
FailingStep(t) ==
    \/ pc[t] = "idle" /\ pc'[t] \in {"mut_none", "unwrap_err", "up_none", "upgrade_cas"}
    \/ pc[t] = "upgrade_cas" /\ pc'[t] = "up_none"
    \/ pc[t] = "upgrade_cas" /\ pc'[t] = "upgrade_cas"
          /\ strong_count'[t] # strong_count[t]

\* C19: a failed get_mut_ref, a failed upgrade and a failed try_unwrap leave
\* strong_count, weak_count, the payload, the allocation status and the live
\* handles exactly as they were.
C19_FailuresChangeNothing ==
    [][\A t \in Threads :
          FailingStep(t) =>
              /\ UNCHANGED <<strong, weak, value, freed, dropped, moved>>
              /\ LiveStrongNext = LiveStrong
              /\ LiveWeakNext = LiveWeak]_vars

\* The three failures, on a block that is allocated: a try_unwrap and a
\* get_mut_ref have failed on shared handles, or an upgrade has returned None.
C19_Witness ==
    /\ Allocated
    /\ \/ \E t, u \in Threads : pc[t] = "unwrap_err" /\ pc[u] = "mut_none"
       \/ \E t \in Threads : pc[t] = "up_none" /\ strong = 0


\* A strong clone has been made: one more idle strong handle, no call changed
\* its position.
StrongCloneStep == pc' = pc /\ idleStrong' = idleStrong + 1

\* A downgrade or a weak clone has been made.
WeakCloneStep == pc' = pc /\ idleWeak' = idleWeak + 1

\* Thread t has called get_strong_count, get_weak_count or deref.
ReadStep(t) == pc[t] = "idle" /\ pc'[t] \in {"count_ret", "deref_ret"}

\* C20: downgrade and weak clone raise weak_count of the allocation by exactly
\* 1 and leave strong_count and the payload alone; strong clone raises
\* strong_count by exactly 1 and leaves weak_count and the payload alone;
\* get_strong_count, get_weak_count and deref change nothing.
C20_FrameEffects ==
    [][/\ WeakCloneStep =>
             (Allocated /\ weak' = Inc(weak) /\ UNCHANGED <<strong, value>>)
       /\ StrongCloneStep =>
             (Allocated /\ strong' = Inc(strong) /\ UNCHANGED <<weak, value>>)
       /\ \A t \in Threads :
             ReadStep(t) =>
                 UNCHANGED <<strong, weak, value, freed, dropped, moved>>]_vars


\* A strong drop executes its strong.fetch_sub: an idle strong handle goes,
\* and the thread either returns at once or goes on to free the box.
StrongDecStep ==
    /\ idleStrong' = idleStrong - 1
    /\ \E t \in Threads :
          /\ pc[t] = "idle"
          /\ pc'[t] \in {"idle", "drop_box"}
          /\ \A u \in Threads \ {t} : pc'[u] = pc[u]

\* A weak.fetch_sub is executed, by a weak drop or by the last strong drop.
WeakDecStep ==
    \/ /\ idleWeak' = idleWeak - 1
       /\ \E t \in Threads :
             /\ pc[t] = "idle"
             /\ pc'[t] \in {"idle", "wdrop_box"}
             /\ \A u \in Threads \ {t} : pc'[u] = pc[u]
    \/ \E t \in Threads : pc[t] = "drop_weak" /\ pc'[t] # "drop_weak"

\* C21: no strong drop and no weak drop performs its decrement on a counter
\* whose value is 0: the value the fetch_sub finds is never 0.
C21_NoDecrementOfZero ==
    [][/\ StrongDecStep => 0 \notin Load(strong)
       /\ WeakDecStep => 0 \notin Load(weak)]_vars


----------------------------------------------------------------------------
\* src/src/my_deque.rs: RawVec<T>, the buffer of a deque

\* let cap = 2 in RawVec::new
InitialCap == 2

FreeBufs(m) == {b \in BufIds : m[b] = Free}

\* alloc(layout): a buffer that was free, its slots uninitialised.
AllocId(m) == CHOOSE b \in FreeBufs(m) : \A c \in FreeBufs(m) : b <= c
Fresh(cap) == [i \in 1 .. cap |-> Uninit]

\* The live elements a buffer holds.
LiveSlots(buf) == {i \in DOMAIN buf : buf[i] # Uninit}

\* A heap, the fields of one deque in it, and the faults committed so far.
Heap(m, q, f) == [mem |-> m, q |-> q, f |-> f]

\* MyDeque::new with RawVec::new
DequeNewOp(m, f) ==
    LET b == AllocId(m)
    IN  Heap([m EXCEPT ![b] = Fresh(InitialCap)],
             [buf |-> b, cap |-> InitialCap, head |-> 0, tail |-> 0, len |-> 0],
             f)

\* MyDeque::with_capacity with RawVec::with_capacity
DequeWithCapacityOp(m, f, cap) ==
    LET b == IF cap = 0 THEN ZeroSized ELSE AllocId(m)
    IN  Heap([m EXCEPT ![b] = Fresh(cap)],
             [buf |-> b, cap |-> cap, head |-> 0, tail |-> 0, len |-> 0],
             f)

\* A grow that copies the old buffer slot by slot, as a realloc would.
GrowRealloc(H) ==
    LET q == H.q
        new_cap == q.cap * 2
        b == IF new_cap = 0 THEN ZeroSized ELSE AllocId(H.mem)
        old == H.mem[q.buf]
        new == [i \in 1 .. new_cap |-> IF i <= q.cap THEN old[i] ELSE Uninit]
    IN  Heap([H.mem EXCEPT ![b] = new, ![q.buf] = Free],
             [q EXCEPT !.buf = b, !.cap = new_cap, !.head = 0, !.tail = q.len],
             H.f)

\* RawVec::grow(head, len), and the assignment of the (0, len) it returns to
\* head and tail
GrowOp(H) ==
    LET q == H.q
        new_cap == q.cap * 2
        b == IF new_cap = 0 THEN ZeroSized ELSE AllocId(H.mem)
        old == H.mem[q.buf]
        new == [i \in 1 .. new_cap |->
                   IF i <= q.len THEN old[((q.head + i - 1) % q.cap) + 1] ELSE Uninit]
    IN  Heap([H.mem EXCEPT ![b] = new, ![q.buf] = Free],
             [q EXCEPT !.buf = b, !.cap = new_cap, !.head = 0, !.tail = q.len],
             H.f)

\* RawVec::write(index, value): the slot is overwritten without a drop.
WriteOp(H, index, v) ==
    Heap([H.mem EXCEPT ![H.q.buf][index + 1] = v],
         H.q,
         H.f \cup (IF H.mem[H.q.buf][index + 1] # Uninit THEN {"overwrite"} ELSE {}))

\* RawVec::read(index): the element is moved out of the slot.
ReadOp(H, index) ==
    Heap([H.mem EXCEPT ![H.q.buf][index + 1] = Uninit],
         H.q,
         H.f \cup (IF H.mem[H.q.buf][index + 1] = Uninit THEN {"double_move"} ELSE {}))

\* ptr::drop_in_place on the slot
DropSlotOp(H, index) ==
    Heap([H.mem EXCEPT ![H.q.buf][index + 1] = Uninit],
         H.q,
         H.f \cup (IF H.mem[H.q.buf][index + 1] = Uninit THEN {"double_drop"} ELSE {}))

\* for i in 0..len { drop the slot (head + i) % cap }, from i on
RECURSIVE DropRangeOp(_, _, _, _)
DropRangeOp(H, head, len, i) ==
    IF i >= len THEN H
    ELSE DropRangeOp(DropSlotOp(H, (head + i) % H.q.cap), head, len, i + 1)

\* Drop for RawVec: nothing when cap is 0, else dealloc; an element still in
\* the buffer is never dropped.
DeallocOp(H) ==
    IF H.q.cap = 0 THEN H
    ELSE
    Heap([H.mem EXCEPT ![H.q.buf] = Free],
         H.q,
         H.f \cup (IF LiveSlots(H.mem[H.q.buf]) # {} THEN {"leak"} ELSE {}))

----------------------------------------------------------------------------
\* src/src/my_deque.rs: MyDeque<T>

\* MyDeque::push_back. With capacity 0 the grow leaves capacity 0, the write
\* goes past the zero-sized buffer, and the remainder by cap panics before len
\* counts the element, which nothing drops any more.
PushBackOp(H, v) ==
    LET G == IF H.q.len = H.q.cap THEN GrowOp(H) ELSE H
        W == WriteOp(G, G.q.tail, v)
    IN  IF G.q.cap = 0
        THEN Heap(G.mem, G.q, G.f \cup {"out_of_buffer", "leak"})
        ELSE Heap(W.mem,
                  [W.q EXCEPT !.tail = (W.q.tail + 1) % W.q.cap, !.len = W.q.len + 1],
                  W.f)

\* MyDeque::push_front. With capacity 0 the computation of the new head
\* panics, on the subtraction or on the remainder by cap, before the write:
\* the unwinding drops the value.
PushFrontOp(H, v) ==
    LET G == IF H.q.len = H.q.cap THEN GrowOp(H) ELSE H
        h == (G.q.head + G.q.cap - 1) % G.q.cap
        W == WriteOp(Heap(G.mem, [G.q EXCEPT !.head = h], G.f), h, v)
    IN  IF G.q.cap = 0 THEN G
        ELSE Heap(W.mem, [W.q EXCEPT !.len = W.q.len + 1], W.f)

\* The elements of a deque from front to back, as get(0), get(1), ... read them.
Logical(m, q) ==
    [i \in 1 .. q.len |-> m[q.buf][((q.head + i - 1) % q.cap) + 1]]

\* The deque d exists and no iterator borrows or owns a deque.
Usable(d) == dqs[d] # NoDeque /\ it = NoIter

Here(d) == Heap(mem, dqs[d], faults)

\* The effect of a call on deque d that leaves heap H and returns r.
DequeStep(d, H, r) ==
    /\ mem' = H.mem
    /\ dqs' = [dqs EXCEPT ![d] = H.q]
    /\ faults' = H.f
    /\ ret' = r
    /\ UNCHANGED <<it, yielded, vec, overflow_checks, arcVars, list, rcs>>

DequeNew(d) ==
    /\ dqs[d] = NoDeque
    /\ it = NoIter
    /\ DequeStep(d, DequeNewOp(mem, faults), Ret("unit", 0))

DequeWithCapacity(d, cap) ==
    /\ dqs[d] = NoDeque
    /\ it = NoIter
    /\ DequeStep(d, DequeWithCapacityOp(mem, faults, cap), Ret("unit", 0))

\* What a push returns: it panics when the capacity is 0.
PushRet(q) == IF q.cap = 0 THEN Ret("panic", 0) ELSE Ret("unit", 0)

PushBack(d, v) ==
    /\ Usable(d)
    /\ dqs[d].len < MaxLen
    /\ DequeStep(d, PushBackOp(Here(d), v), PushRet(dqs[d]))

PushFront(d, v) ==
    /\ Usable(d)
    /\ dqs[d].len < MaxLen
    /\ DequeStep(d, PushFrontOp(Here(d), v), PushRet(dqs[d]))

\* usize arithmetic: wide enough for every index and capacity here.
UsizeModulus == 2 ^ IndexBits

\* self.tail - 1 + self.buf.cap in usize arithmetic
TailBefore(q) == (((q.tail + UsizeModulus - 1) % UsizeModulus) + q.cap) % UsizeModulus

\* MyDeque::pop_back; self.tail - 1 overflows when tail is 0, which panics in
\* a build with overflow checks and wraps in one without.
PopBack(d) ==
    /\ Usable(d)
    /\ LET q == dqs[d]
       IN  IF q.len = 0
           THEN DequeStep(d, Here(d), Ret("none", 0))
           ELSE IF q.tail = 0 /\ overflow_checks
           THEN DequeStep(d, Here(d), Ret("panic", 0))
           ELSE LET t == TailBefore(q) % q.cap
                    H == Heap(mem, [q EXCEPT !.tail = t, !.len = q.len - 1], faults)
                IN  DequeStep(d, ReadOp(H, t), Ret("some", mem[q.buf][t + 1]))

\* MyDeque::pop_front
PopFront(d) ==
    /\ Usable(d)
    /\ LET q == dqs[d]
       IN  IF q.len = 0
           THEN DequeStep(d, Here(d), Ret("none", 0))
           ELSE LET R == ReadOp(Here(d), q.head)
                IN  DequeStep(d,
                              Heap(R.mem,
                                   [q EXCEPT !.head = (q.head + 1) % q.cap,
                                             !.len = q.len - 1],
                                   R.f),
                              Ret("some", mem[q.buf][q.head + 1]))

\* MyDeque::peek_back
PeekBack(d) ==
    /\ Usable(d)
    /\ LET q == dqs[d]
       IN  DequeStep(d, Here(d),
                     IF q.len = 0 THEN Ret("none", 0)
                     ELSE Ret("some", mem[q.buf][((q.tail + q.cap - 1) % q.cap) + 1]))

\* MyDeque::peek_front
PeekFront(d) ==
    /\ Usable(d)
    /\ LET q == dqs[d]
       IN  DequeStep(d, Here(d),
                     IF q.len = 0 THEN Ret("none", 0)
                     ELSE Ret("some", mem[q.buf][q.head + 1]))

\* MyDeque::get
GetOp(m, q, index) ==
    IF index >= q.len THEN Ret("none", 0)
    ELSE Ret("some", m[q.buf][((q.head + index) % q.cap) + 1])

Get(d, index) ==
    /\ Usable(d)
    /\ DequeStep(d, Here(d), GetOp(mem, dqs[d], index))

\* MyDeque::len
DequeLen(d) ==
    /\ Usable(d)
    /\ DequeStep(d, Here(d), Ret("len", dqs[d].len))

\* MyDeque::clear
Clear(d) ==
    /\ Usable(d)
    /\ LET q == dqs[d]
           D == DropRangeOp(Here(d), q.head, q.len, 0)
       IN  DequeStep(d,
                     Heap(D.mem, [q EXCEPT !.len = 0, !.head = 0, !.tail = 0], D.f),
                     Ret("unit", 0))

\* Drop for MyDeque, then Drop for its RawVec
DropDeque(d) ==
    /\ Usable(d)
    /\ LET q == dqs[d]
           D == DeallocOp(DropRangeOp(Here(d), q.head, q.len, 0))
       IN  /\ mem' = D.mem
           /\ dqs' = [dqs EXCEPT ![d] = NoDeque]
           /\ faults' = D.f
           /\ ret' = Ret("unit", 0)
           /\ UNCHANGED <<it, yielded, vec, overflow_checks, arcVars, list, rcs>>


----------------------------------------------------------------------------
\* src/src/my_deque.rs: the three iterators

\* size_of::<T>() for the i32 elements of the iterator tests
ElemSize == 4

\* Addresses alloc may return for a buffer: aligned, and far above any
\* capacity.
BufAddrs == {16 * MaxLen * ElemSize, 32 * MaxLen * ElemSize}

\* The address of slot i of a buffer at address base: ptr.add(i) as usize.
Addr(base, i) == base + i * ElemSize

\* An iterator: the fields the three iterator structs have between them.
Iter(kind, d, buf, base, head, tail, idx, len, cap) ==
    [kind |-> kind, d |-> d, buf |-> buf, base |-> base, head |-> head,
     tail |-> tail, idx |-> idx, len |-> len, cap |-> cap]

\* The values a read of slot i of buffer buf may produce, and its faults.
SlotRead(buf, i) ==
    IF i >= Len(buf) THEN [vals |-> Elems, f |-> {"out_of_buffer"}]
    ELSE IF buf[i + 1] = Uninit THEN [vals |-> Elems, f |-> {"uninit_read"}]
    ELSE [vals |-> {buf[i + 1]}, f |-> {}]

\* What a call on the iterator leaves: the iterator, and the slot it yielded.
IterStep(newIt, slot, r, f) ==
    /\ it' = newIt
    /\ yielded' = Append(yielded, slot)
    /\ ret' = r
    /\ faults' = faults \cup f
    /\ UNCHANGED <<mem, dqs, vec, overflow_checks, arcVars, list, rcs>>

IterNone ==
    /\ ret' = Ret("none", 0)
    /\ UNCHANGED <<mem, dqs, it, yielded, vec, faults, overflow_checks, arcVars, list, rcs>>

\* IntoIterator for &MyDeque: head and tail are pointers into the buffer.
IterNew(d) ==
    /\ Usable(d)
    /\ \E base \in BufAddrs :
          it' = Iter("ref", d, dqs[d].buf, base, dqs[d].head, dqs[d].tail, 0,
                     dqs[d].len, dqs[d].cap)
    /\ yielded' = <<>>
    /\ ret' = Ret("unit", 0)
    /\ UNCHANGED <<mem, dqs, vec, faults, overflow_checks, arcVars, list, rcs>>

\* MyDequeIter::next: the test for the end of the buffer is made on the
\* address of head.
IterNext ==
    /\ it # NoIter
    /\ it.kind = "ref"
    /\ IF it.len = 0 THEN IterNone
       ELSE LET R == SlotRead(mem[it.buf], it.head)
                h == IF (Addr(it.base, it.head) + 1) % it.cap = Addr(it.base, it.tail)
                     THEN it.tail
                     ELSE it.head + 1
            IN  \E v \in R.vals :
                   IterStep([it EXCEPT !.head = h, !.len = it.len - 1],
                            it.head, Ret("some", v), R.f)

\* IntoIterator for &mut MyDeque: buf is the pointer to the slot at head, and
\* idx starts at head as well.
IterMutNew(d) ==
    /\ Usable(d)
    /\ it' = Iter("mut", d, dqs[d].buf, 0, dqs[d].head, 0, dqs[d].head,
                  dqs[d].len, dqs[d].cap)
    /\ yielded' = <<>>
    /\ ret' = Ret("unit", 0)
    /\ UNCHANGED <<mem, dqs, vec, faults, overflow_checks, arcVars, list, rcs>>

\* MutMyDequeIter::next: self.buf.add(self.idx)
IterMutNext ==
    /\ it # NoIter
    /\ it.kind = "mut"
    /\ IF it.len = 0 THEN IterNone
       ELSE LET slot == it.head + it.idx
                R == SlotRead(mem[it.buf], slot)
            IN  \E v \in R.vals :
                   IterStep([it EXCEPT !.idx = (it.idx + 1) % it.cap,
                                       !.len = it.len - 1],
                            slot, Ret("some", v), R.f)

\* The borrow of a reference iterator ends.
IterEnd ==
    /\ it # NoIter
    /\ it.kind \in {"ref", "mut"}
    /\ it' = NoIter
    /\ yielded' = <<>>
    /\ ret' = Ret("unit", 0)
    /\ UNCHANGED <<mem, dqs, vec, faults, overflow_checks, arcVars, list, rcs>>

\* IntoIterator for MyDeque: the deque is consumed, its buffer goes to the
\* iterator.
IntoIter(d) ==
    /\ Usable(d)
    /\ it' = Iter("into", d, dqs[d].buf, 0, 0, 0, dqs[d].head, dqs[d].len, dqs[d].cap)
    /\ dqs' = [dqs EXCEPT ![d] = NoDeque]
    /\ yielded' = <<>>
    /\ ret' = Ret("unit", 0)
    /\ UNCHANGED <<mem, vec, faults, overflow_checks, arcVars, list, rcs>>

\* The buffer of the consuming iterator, as a heap with the iterator's fields.
IterHeap == Heap(mem, [buf |-> it.buf, cap |-> it.cap], faults)

\* MyDequeIntoIter::next: ptr::read(self.ptr.add(self.idx))
IntoIterNext ==
    /\ it # NoIter
    /\ it.kind = "into"
    /\ IF it.len = 0 THEN IterNone
       ELSE LET R == ReadOp(IterHeap, it.idx)
            IN  /\ mem' = R.mem
                /\ faults' = R.f
                /\ it' = [it EXCEPT !.idx = (it.idx + 1) % it.cap, !.len = it.len - 1]
                /\ yielded' = Append(yielded, it.idx)
                /\ ret' = Ret("some", mem[it.buf][it.idx + 1])
                /\ UNCHANGED <<dqs, vec, overflow_checks, arcVars, list, rcs>>

\* Drop for MyDequeIntoIter, then Drop for its RawVec
IntoIterDrop ==
    /\ it # NoIter
    /\ it.kind = "into"
    /\ LET D == DeallocOp(DropRangeOp(IterHeap, it.idx, it.len, 0))
       IN  /\ mem' = D.mem
           /\ faults' = D.f
    /\ it' = NoIter
    /\ yielded' = <<>>
    /\ ret' = Ret("unit", 0)
    /\ UNCHANGED <<dqs, vec, overflow_checks, arcVars, list, rcs>>

\* val.clone() of the elements s[i], s[i + 1], ... pushed at the back of N
RECURSIVE ClonePush(_, _, _)
ClonePush(N, s, i) ==
    IF i > Len(s) THEN N ELSE ClonePush(PushBackOp(N, s[i]), s, i + 1)

\* A clone that pushes each element at the front of the new deque.
CloneFront(m, q, f) ==
    LET N == DequeNewOp(m, f)
        s == Logical(m, q)
        F[i \in 0 .. Len(s)] == IF i = 0 THEN N ELSE PushFrontOp(F[i - 1], s[i])
    IN  F[Len(s)]

\* Clone for MyDeque: a deque from new(), then each element of the original,
\* read from front to back, pushed at its back.
CloneOp(m, q, f) == ClonePush(DequeNewOp(m, f), Logical(m, q), 1)

\* let e = d.clone()
CloneDeque(d, e) ==
    /\ Usable(d)
    /\ dqs[e] = NoDeque
    /\ LET C == CloneOp(mem, dqs[d], faults)
       IN  /\ mem' = C.mem
           /\ dqs' = [dqs EXCEPT ![e] = C.q]
           /\ faults' = C.f
    /\ ret' = Ret("unit", 0)
    /\ UNCHANGED <<it, yielded, vec, overflow_checks, arcVars, list, rcs>>

\* PartialEq for MyDeque
EqOp(m, p, q) ==
    IF p.len # q.len THEN FALSE
    ELSE \A i \in 0 .. p.len - 1 : GetOp(m, p, i) = GetOp(m, q, i)

\* d == e
EqDeques(d, e) ==
    /\ Usable(d)
    /\ Usable(e)
    /\ ret' = Ret("bool", IF EqOp(mem, dqs[d], dqs[e]) THEN 1 ELSE 0)
    /\ UNCHANGED <<mem, dqs, it, yielded, vec, faults, overflow_checks, arcVars, list, rcs>>

----------------------------------------------------------------------------
\* src/src/my_vec.rs: MyVec<T> and its RawVec<T>

\* RawVec::new: let cap = 2
InitialVecCap == 2

\* MyVec::new with RawVec::new
VecNew == [cap |-> InitialVecCap, len |-> 0, buf |-> Fresh(InitialVecCap)]

\* A grow that makes room for one more element.
VecGrowByOne(v) ==
    [v EXCEPT !.cap = v.cap + 1,
              !.buf = [i \in 1 .. v.cap + 1 |-> IF i <= v.cap THEN v.buf[i] ELSE Uninit]]

\* RawVec::grow: realloc to twice the capacity, the contents kept in place
VecGrow(v) ==
    [v EXCEPT !.cap = v.cap * 2,
              !.buf = [i \in 1 .. v.cap * 2 |-> IF i <= v.cap THEN v.buf[i] ELSE Uninit]]

\* The slots first .. first + count - 1 that lie outside the buffer are a
\* fault of the access.
VecFaults(v, first, count) ==
    IF count > 0 /\ first + count > v.cap THEN {"out_of_buffer"} ELSE {}

\* RawVec::write(index, value); a write past the buffer leaves it as it is.
VecWrite(v, index, val) ==
    IF index < v.cap THEN [v EXCEPT !.buf[index + 1] = val] ELSE v

\* ptr::copy(ptr.add(src), ptr.add(dst), count): the ranges may overlap.
VecCopy(v, src, dst, count) ==
    [v EXCEPT !.buf = [i \in 1 .. v.cap |->
                          IF /\ dst < i
                             /\ i <= dst + count
                             /\ i - dst + src <= v.cap
                          THEN v.buf[i - dst + src]
                          ELSE v.buf[i]]]

\* An insert that writes the value where it goes and moves nothing.
VecWriteInPlace(v, index, val, len) == VecWrite(v, index, val)

\* RawVec::write_pos(index, value, len): the elements from index on move up by
\* one slot, then the value is written.
VecWritePos(v, index, val, len) ==
    VecWrite(VecCopy(v, index, index + 1, len - index), index, val)

\* RawVec::remove_pos(index, len): the elements after index move down by one.
VecRemovePos(v, index, len) == VecCopy(v, index + 1, index, len - index - 1)

\* The effect of a call on the vector that leaves v, returns r and commits f.
VecStep(v, r, f) ==
    /\ vec' = v
    /\ ret' = r
    /\ faults' = faults \cup f
    /\ UNCHANGED <<mem, dqs, it, yielded, overflow_checks, arcVars, list, rcs>>

\* MyVec::push
VecPush(val) ==
    /\ vec # NoVec
    /\ vec.len < MaxLen
    /\ LET g == IF vec.len = vec.cap THEN VecGrow(vec) ELSE vec
       IN  VecStep([VecWrite(g, g.len, val) EXCEPT !.len = g.len + 1],
                   Ret("unit", 0),
                   VecFaults(g, g.len, 1))

\* MyVec::pop
VecPop ==
    /\ vec # NoVec
    /\ IF vec.len = 0
       THEN VecStep(vec, Ret("none", 0), {})
       ELSE VecStep([vec EXCEPT !.len = vec.len - 1],
                    Ret("some", vec.buf[vec.len]),
                    {})

\* MyVec::get
VecGet(index) ==
    /\ vec # NoVec
    /\ VecStep(vec,
               IF index >= vec.len THEN Ret("none", 0)
               ELSE Ret("some", vec.buf[index + 1]),
               {})

\* An insert that makes room before it looks at the index.
VecInsertLateAssert(index, val) ==
    /\ vec # NoVec
    /\ LET g == IF vec.len = vec.cap THEN VecGrow(vec) ELSE vec
       IN  IF ~(index <= vec.len)
           THEN VecStep(g, Ret("panic", 0), {})
           ELSE /\ vec.len < MaxLen
                /\ VecStep([VecWritePos(g, index, val, g.len) EXCEPT !.len = g.len + 1],
                           Ret("unit", 0),
                           VecFaults(g, index, g.len - index + 1))

\* MyVec::insert: assert!(index <= self.len) comes first.
VecInsert(index, val) ==
    /\ vec # NoVec
    /\ IF ~(index <= vec.len)
       THEN VecStep(vec, Ret("panic", 0), {})
       ELSE /\ vec.len < MaxLen
            /\ LET g == IF vec.len = vec.cap THEN VecGrow(vec) ELSE vec
               IN  VecStep([VecWritePos(g, index, val, g.len) EXCEPT !.len = g.len + 1],
                           Ret("unit", 0),
                           VecFaults(g, index, g.len - index + 1))

\* MyVec::remove: assert!(index < self.len) comes first.
VecRemove(index) ==
    /\ vec # NoVec
    /\ IF ~(index < vec.len)
       THEN VecStep(vec, Ret("panic", 0), {})
       ELSE VecStep([VecRemovePos(vec, index, vec.len) EXCEPT !.len = vec.len - 1],
                    Ret("value", vec.buf[index + 1]),
                    VecFaults(vec, index, vec.len - index))

\* One vector, created by new()
InitVec ==
    /\ ArcNew
    /\ value = 0
    /\ mem = [b \in Bufs |-> Free]
    /\ dqs = [d \in DequeNames |-> NoDeque]
    /\ it = NoIter
    /\ yielded = <<>>
    /\ vec = VecNew
    /\ ret = NoRet
    /\ faults = {}
    /\ overflow_checks \in BOOLEAN
    /\ list = NoList
    /\ rcs = [r \in RcNames |-> NoRc]

NextVec ==
    \/ \E val \in Elems : VecPush(val)
    \/ VecPop
    \/ \E index \in 0 .. MaxLen : VecGet(index)
    \/ \E index \in 0 .. MaxLen + 1, val \in Elems : VecInsert(index, val)
    \/ \E index \in 0 .. MaxLen : VecRemove(index)

SpecVec == InitVec /\ [][NextVec]_vars

----------------------------------------------------------------------------
\* One deque, created by new(), under every operation and iterator

InitDeque ==
    /\ ArcNew
    /\ value = 0
    /\ LET N == DequeNewOp([b \in Bufs |-> Free], {})
       IN  /\ mem = N.mem
           /\ dqs = [d \in DequeNames |-> IF d = "a" THEN N.q ELSE NoDeque]
    /\ it = NoIter
    /\ yielded = <<>>
    /\ vec = NoVec
    /\ ret = NoRet
    /\ faults = {}
    /\ overflow_checks \in BOOLEAN
    /\ list = NoList
    /\ rcs = [r \in RcNames |-> NoRc]

NextDeque ==
    \/ DequeNew("a")
    \/ \E cap \in 0 .. MaxLen : DequeWithCapacity("a", cap)
    \/ \E v \in Elems : PushBack("a", v)
    \/ \E v \in Elems : PushFront("a", v)
    \/ PopBack("a")
    \/ PopFront("a")
    \/ PeekBack("a")
    \/ PeekFront("a")
    \/ \E i \in 0 .. MaxLen : Get("a", i)
    \/ DequeLen("a")
    \/ Clear("a")
    \/ DropDeque("a")
    \/ IterNew("a")
    \/ IterNext
    \/ IterMutNew("a")
    \/ IterMutNext
    \/ IterEnd
    \/ IntoIter("a")
    \/ IntoIterNext
    \/ IntoIterDrop

SpecDeque == InitDeque /\ [][NextDeque]_vars

\* One deque, created by new(), under the queue operations alone
NextDequeOps ==
    \/ \E v \in Elems : PushBack("a", v)
    \/ \E v \in Elems : PushFront("a", v)
    \/ PopBack("a")
    \/ PopFront("a")
    \/ PeekBack("a")
    \/ PeekFront("a")
    \/ \E i \in 0 .. MaxLen : Get("a", i)
    \/ DequeLen("a")

SpecDequeOps == InitDeque /\ [][NextDequeOps]_vars

\* One deque of any capacity under the queue operations
NextDequeGrow ==
    \/ NextDequeOps
    \/ DropDeque("a")
    \/ DequeNew("a")
    \/ \E cap \in 0 .. MaxLen : DequeWithCapacity("a", cap)

SpecDequeGrow == InitDeque /\ [][NextDequeGrow]_vars

\* A deque and its clone; once the two differ, the next clone is awaited
\* before either is pushed again.
NotYetApart ==
    \/ dqs["b"] = NoDeque
    \/ Logical(mem, dqs["a"]) = Logical(mem, dqs["b"])

NextDequeClone ==
    \/ \E d \in DequeNames, v \in Elems : NotYetApart /\ PushBack(d, v)
    \/ \E d \in DequeNames, v \in Elems : NotYetApart /\ PushFront(d, v)
    \/ PopFront("a")
    \/ CloneDeque("a", "b")
    \/ EqDeques("a", "b")
    \/ DropDeque("b")

SpecDequeClone == InitDeque /\ [][NextDequeClone]_vars


----------------------------------------------------------------------------
\* Claims about MyDeque

\* The abstract sequence deque "a" stands for.
LogicalA == Logical(mem, dqs["a"])

Last(q) == q[Len(q)]
Front(q) == SubSeq(q, 1, Len(q) - 1)

\* C22: push_back, push_front, pop_back, pop_front, peek_front, peek_back,
\* get and len on a deque made by new() act and answer as on an abstract
\* sequence: the pushes append and prepend, a pop removes and returns the
\* element at its end (None when empty), a peek returns it and removes
\* nothing, get(i) is the i-th element from the front (None when i >= len).
C22_DequeRefinesSequence ==
    [][/\ \A v \in Elems :
             PushBack("a", v) => LogicalA' = Append(LogicalA, v)
       /\ \A v \in Elems :
             PushFront("a", v) => LogicalA' = <<v>> \o LogicalA
       /\ PopBack("a") =>
             IF LogicalA = <<>>
             THEN ret' = Ret("none", 0) /\ LogicalA' = LogicalA
             ELSE ret' = Ret("some", Last(LogicalA)) /\ LogicalA' = Front(LogicalA)
       /\ PopFront("a") =>
             IF LogicalA = <<>>
             THEN ret' = Ret("none", 0) /\ LogicalA' = LogicalA
             ELSE ret' = Ret("some", Head(LogicalA)) /\ LogicalA' = Tail(LogicalA)
       /\ PeekBack("a") =>
             /\ LogicalA' = LogicalA
             /\ ret' = IF LogicalA = <<>> THEN Ret("none", 0)
                       ELSE Ret("some", Last(LogicalA))
       /\ PeekFront("a") =>
             /\ LogicalA' = LogicalA
             /\ ret' = IF LogicalA = <<>> THEN Ret("none", 0)
                       ELSE Ret("some", Head(LogicalA))
       /\ \A i \in 0 .. MaxLen :
             Get("a", i) =>
                /\ LogicalA' = LogicalA
                /\ ret' = IF i >= Len(LogicalA) THEN Ret("none", 0)
                          ELSE Ret("some", LogicalA[i + 1])
       /\ DequeLen("a") =>
             /\ LogicalA' = LogicalA
             /\ ret' = Ret("len", Len(LogicalA))]_vars


\* The slots that hold the elements of deque q, from front to back.
LogicalSlots(q) == [k \in 1 .. q.len |-> (q.head + k - 1) % q.cap]

\* The iterator in use has yielded the first slots of its deque in order, and
\* has as many items left as the deque has further elements.
YieldsInOrder ==
    LET q == dqs[it.d]
    IN  /\ Len(yielded) + it.len = q.len
        /\ \A k \in 1 .. Len(yielded) :
              k <= q.len /\ yielded[k] = LogicalSlots(q)[k]

\* C23: iterating &MyDeque yields exactly len references, to the elements in
\* logical order from front to back, also when the elements wrap around the
\* end of the buffer; it reads no slot outside the buffer and no
\* uninitialised slot.
C23_IterYieldsLogicalOrder == it.kind = "ref" => YieldsInOrder

\* C24: iterating &mut MyDeque yields exactly len mutable references, one to
\* each element in logical order, also when head > 0; no slot outside the
\* live range is touched.
C24_IterMutYieldsLogicalOrder == it.kind = "mut" => YieldsInOrder


\* A push on deque "a" finds len == capacity.
FullA == dqs["a"].len = dqs["a"].cap

\* C25: when a push_back or push_front finds len == capacity, grow doubles
\* the capacity, keeps every element and the logical order, commits no fault,
\* and leaves head == 0 and tail == len; the push goes on from that state:
\* push_back writes the new element at slot len, push_front at the last slot
\* of the doubled buffer (a buffer of capacity 0 has no slot to write).
C25_GrowKeepsOrder ==
    [][\A v \in Elems :
          ((PushBack("a", v) \/ PushFront("a", v)) /\ FullA) =>
             LET G == GrowOp(Here("a"))
             IN  /\ G.q.cap = 2 * dqs["a"].cap
                 /\ Logical(G.mem, G.q) = LogicalA
                 /\ G.q.head = 0
                 /\ G.q.tail = dqs["a"].len
                 /\ G.f = faults
                 /\ dqs'["a"].cap = G.q.cap
                 /\ dqs'["a"].buf = G.q.buf
                 /\ (PushBack("a", v) /\ G.q.cap > 0) =>
                       /\ LogicalA' = Append(LogicalA, v)
                       /\ dqs'["a"].head = 0
                       /\ dqs'["a"].tail = (G.q.tail + 1) % G.q.cap
                 /\ (PushFront("a", v) /\ G.q.cap > 0) =>
                       /\ LogicalA' = <<v>> \o LogicalA
                       /\ dqs'["a"].head = G.q.cap - 1
                       /\ dqs'["a"].tail = G.q.tail]_vars

\* A push_front has grown the deque: the buffer is the doubled one, full but
\* for one slot, and the new front is in its last slot.
C25_Witness ==
    /\ dqs["a"].cap = 2 * InitialCap
    /\ dqs["a"].len = InitialCap + 1
    /\ dqs["a"].head = dqs["a"].cap - 1
    /\ dqs["a"].tail = InitialCap

\* The faults of releasing an element twice or never.
ReleaseFaults == {"double_drop", "double_move", "leak", "overwrite"}

\* The slots of buffer b that hold an element someone still has to release.
OwedSlots(b) ==
    IF \E d \in DequeNames : dqs[d].buf = b
    THEN LET q == dqs[CHOOSE d \in DequeNames : dqs[d].buf = b]
         IN  {LogicalSlots(q)[k] + 1 : k \in 1 .. q.len}
    ELSE IF it.kind = "into" /\ it.buf = b
    THEN {((it.idx + k) % it.cap) + 1 : k \in 0 .. it.len - 1}
    ELSE {}

\* C26: every element pushed into a deque is released exactly once: the
\* elements not yet released are exactly those the deque, or the consuming
\* iterator, still holds, no pop, next, clear or drop releases a slot that
\* holds none, and no buffer is deallocated or overwritten with one in it.
C26_ReleasedExactlyOnce ==
    /\ faults \cap ReleaseFaults = {}
    /\ \A b \in BufIds : LiveSlots(mem[b]) = OwedSlots(b)

LogicalB == Logical(mem, dqs["b"])

\* C27: the clone of a deque is == to the original, and == holds exactly of
\* deques with the same length and the same elements in logical order,
\* whatever their head offsets and capacities; a push on the original or on
\* the clone leaves the other as it was.
C27_CloneEqualAndIndependent ==
    [][/\ CloneDeque("a", "b") =>
             /\ EqOp(mem', dqs'["a"], dqs'["b"])
             /\ EqOp(mem', dqs'["b"], dqs'["a"])
             /\ LogicalB' = LogicalA
             /\ LogicalA' = LogicalA
             /\ dqs'["a"] = dqs["a"]
             /\ dqs'["b"].buf # dqs'["a"].buf
             /\ faults' = faults
       /\ EqDeques("a", "b") =>
             ret' = Ret("bool", IF LogicalA = LogicalB THEN 1 ELSE 0)
       /\ \A v \in Elems :
             /\ ((PushBack("a", v) \/ PushFront("a", v)) /\ dqs["b"] # NoDeque) =>
                   LogicalB' = LogicalB
             /\ ((PushBack("b", v) \/ PushFront("b", v)) /\ dqs["a"] # NoDeque) =>
                   LogicalA' = LogicalA]_vars

\* The clone was made of a one-element deque, and a push_front on the
\* original has since put a second element before it, in the last slot.
C27_Witness ==
    /\ dqs["b"] # NoDeque
    /\ dqs["a"].head > 0
    /\ dqs["b"].head = 0
    /\ Len(LogicalB) = 1
    /\ Len(LogicalA) = 2
    /\ LogicalA[2] = LogicalB[1]
    /\ LogicalA[1] # LogicalB[1]


----------------------------------------------------------------------------
\* Claims about MyVec

\* The elements of the vector, as get(0), get(1), ... read them.
VecLogical == [i \in 1 .. vec.len |-> vec.buf[i]]

\* Sequence s with v put at position i, and with the element at i taken out
InsertAt(s, i, v) == SubSeq(s, 1, i) \o <<v>> \o SubSeq(s, i + 1, Len(s))
RemoveAt(s, i) == SubSeq(s, 1, i) \o SubSeq(s, i + 2, Len(s))

\* C28: every push, pop, insert(i, v) with i <= len, remove(i) with i < len
\* and get on a MyVec returns what the same operation returns on an abstract
\* sequence, and leaves the elements that operation leaves.
C28_VecRefinesSequence ==
    [][/\ \A val \in Elems :
             VecPush(val) => VecLogical' = Append(VecLogical, val)
       /\ VecPop =>
             IF VecLogical = <<>>
             THEN ret' = Ret("none", 0) /\ VecLogical' = VecLogical
             ELSE ret' = Ret("some", Last(VecLogical))
                  /\ VecLogical' = Front(VecLogical)
       /\ \A index \in 0 .. MaxLen :
             VecGet(index) =>
                /\ VecLogical' = VecLogical
                /\ ret' = IF index >= Len(VecLogical) THEN Ret("none", 0)
                          ELSE Ret("some", VecLogical[index + 1])
       /\ \A index \in 0 .. MaxLen, val \in Elems :
             (VecInsert(index, val) /\ index <= Len(VecLogical)) =>
                /\ ret' = Ret("unit", 0)
                /\ VecLogical' = InsertAt(VecLogical, index, val)
       /\ \A index \in 0 .. MaxLen :
             (VecRemove(index) /\ index < Len(VecLogical)) =>
                /\ ret' = Ret("value", VecLogical[index + 1])
                /\ VecLogical' = RemoveAt(VecLogical, index)]_vars

\* An insert before the last element of a full vector of two, then a remove
\* of the first: the vector has grown, and holds the inserted element last.
C28_Witness ==
    /\ ret.kind = "value"
    /\ vec.cap = 2 * InitialVecCap
    /\ vec.len = 2
    /\ VecLogical[1] # VecLogical[2]
    /\ ret.val = VecLogical[1]

\* C29: insert with index > len and remove with index >= len panic, and leave
\* len, capacity and every element as they were.
C29_OutOfRangePanics ==
    [][/\ \A index \in 0 .. MaxLen + 1, val \in Elems :
             (VecInsert(index, val) /\ index > vec.len) =>
                ret' = Ret("panic", 0) /\ vec' = vec /\ faults' = faults
       /\ \A index \in 0 .. MaxLen :
             (VecRemove(index) /\ index >= vec.len) =>
                ret' = Ret("panic", 0) /\ vec' = vec /\ faults' = faults]_vars

\* A call has panicked on a full vector, which an insert would have grown.
C29_Witness ==
    /\ ret.kind = "panic"
    /\ vec.len = vec.cap
    /\ vec.len > 0

\* A push or an in-range insert is the step taken.
VecAdds ==
    \/ \E val \in Elems : VecPush(val)
    \/ \E index \in 0 .. MaxLen, val \in Elems :
          index <= vec.len /\ VecInsert(index, val)

\* C30: len <= capacity in every reachable state of a MyVec; the capacity
\* starts at 2, never shrinks, and doubles exactly when a push or an insert
\* finds len == capacity, so that no write lands outside the buffer.
C30_CapacityDoubles ==
    /\ vec.cap = InitialVecCap
    /\ [](vec.len <= vec.cap /\ "out_of_buffer" \notin faults)
    /\ [][/\ vec'.cap >= vec.cap
          /\ vec'.cap # vec.cap <=> (VecAdds /\ vec.len = vec.cap)
          /\ vec'.cap # vec.cap => vec'.cap = 2 * vec.cap]_vars

\* The third element has made the vector grow.
C30_Witness ==
    /\ vec.cap = 2 * InitialVecCap
    /\ vec.len = InitialVecCap + 1


----------------------------------------------------------------------------
\* src/src/six.rs: List<T>, a queue of heap nodes linked by raw pointers

\* null_mut()
Null == 0

\* The addresses Box::new may return for a node.
NodeIds == 1 .. MaxLen

\* A node that is not allocated.
FreeNode == [live |-> FALSE, elem |-> Uninit, next |-> Null]

\* List::new
ListNew == [head |-> Null, tail |-> Null, nodes |-> [n \in NodeIds |-> FreeNode]]

\* List::push: the node is boxed, linked behind the tail (or made the head of
\* an empty list), and made the tail. A store through a tail that points to
\* a freed node is lost.
ListPush(elem) ==
    /\ list # NoList
    /\ \E new_tail \in {n \in NodeIds : ~list.nodes[n].live} :
          LET boxed == [list.nodes EXCEPT
                           ![new_tail] = [live |-> TRUE, elem |-> elem, next |-> Null]]
          IN  /\ list' =
                    IF list.tail # Null
                    THEN [head |-> list.head,
                          tail |-> new_tail,
                          nodes |-> IF list.nodes[list.tail].live
                                    THEN [boxed EXCEPT ![list.tail].next = new_tail]
                                    ELSE boxed]
                    ELSE [head |-> new_tail, tail |-> new_tail, nodes |-> boxed]
              /\ faults' = faults \cup
                    (IF list.tail # Null /\ ~list.nodes[list.tail].live
                     THEN {"use_after_free"} ELSE {})
    /\ ret' = Ret("unit", 0)
    /\ UNCHANGED <<mem, dqs, it, yielded, vec, overflow_checks, rcs, arcVars>>

\* A pop that leaves tail as it is when the last node goes.
ListPopKeepTail ==
    /\ list # NoList
    /\ IF list.head = Null
       THEN /\ ret' = Ret("none", 0)
            /\ UNCHANGED <<list, faults>>
       ELSE LET head == list.nodes[list.head]
            IN  /\ list' = [head |-> head.next,
                            tail |-> list.tail,
                            nodes |-> [list.nodes EXCEPT ![list.head] = FreeNode]]
                /\ ret' = Ret("some", head.elem)
                /\ UNCHANGED faults
    /\ UNCHANGED <<mem, dqs, it, yielded, vec, overflow_checks, rcs, arcVars>>

\* List::pop: the head node is unboxed, head moves to its next, tail is
\* nulled when the list is empty now, and the element is returned.
ListPop ==
    /\ list # NoList
    /\ IF list.head = Null
       THEN /\ ret' = Ret("none", 0)
            /\ UNCHANGED <<list, faults>>
       ELSE LET head == list.nodes[list.head]
            IN  /\ list' = [head |-> head.next,
                            tail |-> IF head.next = Null THEN Null ELSE list.tail,
                            nodes |-> [list.nodes EXCEPT ![list.head] = FreeNode]]
                /\ ret' = Ret("some", head.elem)
                /\ UNCHANGED faults
    /\ UNCHANGED <<mem, dqs, it, yielded, vec, overflow_checks, rcs, arcVars>>

\* List::peek
ListPeek ==
    /\ list # NoList
    /\ ret' = IF list.head = Null THEN Ret("none", 0)
              ELSE Ret("some", list.nodes[list.head].elem)
    /\ UNCHANGED <<mem, dqs, it, yielded, vec, faults, overflow_checks, list, rcs, arcVars>>

\* The elements Iter::next yields from node p on, at most fuel of them.
RECURSIVE Walk(_, _, _)
Walk(nodes, p, fuel) ==
    IF p = Null \/ fuel = 0 THEN <<>>
    ELSE <<nodes[p].elem>> \o Walk(nodes, nodes[p].next, fuel - 1)

\* The elements of the list from its head, as List::iter yields them.
ListLogical == Walk(list.nodes, list.head, MaxLen + 1)

\* One list, created by new()
InitList ==
    /\ ArcNew
    /\ value = 0
    /\ mem = [b \in Bufs |-> Free]
    /\ dqs = [d \in DequeNames |-> NoDeque]
    /\ it = NoIter
    /\ yielded = <<>>
    /\ vec = NoVec
    /\ ret = NoRet
    /\ faults = {}
    /\ overflow_checks \in BOOLEAN
    /\ list = ListNew
    /\ rcs = [r \in RcNames |-> NoRc]

NextList ==
    \/ \E elem \in Elems : ListPush(elem)
    \/ ListPop
    \/ ListPeek

SpecList == InitList /\ [][NextList]_vars

\* C31: the List is a FIFO queue: a push puts the element behind all others,
\* a pop returns None exactly when the list holds no element, and otherwise
\* returns and removes the element pushed earliest; no call touches a freed
\* node.
C31_ListIsFifo ==
    [][/\ \A elem \in Elems :
             ListPush(elem) =>
                ListLogical' = Append(ListLogical, elem) /\ faults' = {}
       /\ ListPop =>
             IF ListLogical = <<>>
             THEN ret' = Ret("none", 0) /\ ListLogical' = <<>>
             ELSE /\ ret' = Ret("some", Head(ListLogical))
                  /\ ListLogical' = Tail(ListLogical)
       /\ ListPeek =>
             /\ ListLogical' = ListLogical
             /\ ret' = IF ListLogical = <<>> THEN Ret("none", 0)
                       ELSE Ret("some", Head(ListLogical))]_vars

\* A pop has returned an element, and a different one, pushed after it, is
\* the only one left: head and tail point to its node.
C31_Witness ==
    /\ list # NoList
    /\ ret.kind = "some"
    /\ Len(ListLogical) = 1
    /\ ListLogical[1] # ret.val
    /\ list.head = list.tail


----------------------------------------------------------------------------
\* src/src/my_rc.rs: MyRc<T>, the single-threaded handle to an InnerRc<T>

\* The values a read of count may return: any, once the block is freed.
RcLoad(b) == IF b.freed = 0 THEN {b.count} ELSE 0 .. MaxStrong

\* The values a read of the payload may return.
RcRead(b) == IF b.freed = 0 /\ b.dropped = 0 THEN {b.value} ELSE Elems

\* The faults of a call that goes through the pointer of block b.
RcFaults(b) == IF b.freed = 0 THEN {} ELSE {"use_after_free"}

\* The effect of a call on the handles of r that leaves block b, returns x
\* and commits the faults f.
RcStep(r, b, x, f) ==
    /\ rcs' = [rcs EXCEPT ![r] = b]
    /\ ret' = x
    /\ faults' = faults \cup f
    /\ UNCHANGED <<mem, dqs, it, yielded, vec, overflow_checks, list, arcVars>>

\* MyRc::new with InnerRc::new: count starts at 1.
RcNew(r, v) ==
    /\ rcs[r].handles = 0
    /\ RcStep(r, [count |-> 1, value |-> v, handles |-> 1, freed |-> 0, dropped |-> 0],
              Ret("unit", 0), {})

\* A clone that hands out the new handle and leaves count as it is.
RcCloneNoInc(r) ==
    /\ rcs[r].handles >= 1
    /\ rcs[r].handles < MaxStrong
    /\ RcStep(r, [rcs[r] EXCEPT !.handles = @ + 1], Ret("unit", 0), RcFaults(rcs[r]))

\* Clone for MyRc: inner.count.set(inner.count.get() + 1)
RcClone(r) ==
    /\ rcs[r].handles >= 1
    /\ rcs[r].handles < MaxStrong
    /\ \E c \in RcLoad(rcs[r]) :
          RcStep(r,
                 [rcs[r] EXCEPT !.handles = @ + 1,
                                !.count = IF rcs[r].freed = 0 THEN c + 1 ELSE @],
                 Ret("unit", 0), RcFaults(rcs[r]))

\* Drop for MyRc: panic on count 0, decrement when count is not 1, else drop
\* the box, which destroys the value and frees the block.
RcDrop(r) ==
    /\ rcs[r].handles >= 1
    /\ \E c \in RcLoad(rcs[r]) :
          LET gone == [rcs[r] EXCEPT !.handles = @ - 1]
          IN  IF c = 0
              THEN RcStep(r, gone, Ret("panic", 0),
                          RcFaults(rcs[r]) \cup {"double_drop_detected"})
              ELSE IF c # 1
              THEN RcStep(r,
                          [gone EXCEPT !.count = IF rcs[r].freed = 0 THEN c - 1 ELSE @],
                          Ret("unit", 0), RcFaults(rcs[r]))
              ELSE RcStep(r,
                          [gone EXCEPT !.freed = Min(@ + 1, MaxEvents),
                                       !.dropped = Min(@ + 1, MaxEvents)],
                          Ret("unit", 0), RcFaults(rcs[r]))

\* MyRc::get_count
RcGetCount(r) ==
    /\ rcs[r].handles >= 1
    /\ \E c \in RcLoad(rcs[r]) :
          RcStep(r, rcs[r], Ret("count", c), RcFaults(rcs[r]))

\* MyRc::get_value_ref / Deref for MyRc
RcDeref(r) ==
    /\ rcs[r].handles >= 1
    /\ \E v \in RcRead(rcs[r]) :
          RcStep(r, rcs[r], Ret("value", v), RcFaults(rcs[r]))

\* Two values, each behind its own MyRc handles
InitRc ==
    /\ ArcNew
    /\ value = 0
    /\ mem = [b \in Bufs |-> Free]
    /\ dqs = [d \in DequeNames |-> NoDeque]
    /\ it = NoIter
    /\ yielded = <<>>
    /\ vec = NoVec
    /\ ret = NoRet
    /\ faults = {}
    /\ overflow_checks \in BOOLEAN
    /\ list = NoList
    /\ rcs = [r \in RcNames |-> NoRc]

NextRc ==
    \/ \E r \in RcNames, v \in Elems : RcNew(r, v)
    \/ \E r \in RcNames : RcClone(r)
    \/ \E r \in RcNames : RcDrop(r)
    \/ \E r \in RcNames : RcGetCount(r)
    \/ \E r \in RcNames : RcDeref(r)

SpecRc == InitRc /\ [][NextRc]_vars

\* C32: after every sequence of clone and drop of MyRc handles, count equals
\* the number of live handles while one is live; the value is destroyed and
\* its block freed exactly once, when no handle is left, by the drop that
\* finds count == 1; and no drop finds count == 0, which is what the
\* "Double drop detected!" panic reports.
C32_RcCountIsLiveHandles ==
    /\ [](\A r \in RcNames :
            rcs[r] # NoRc =>
               /\ rcs[r].handles > 0 =>
                     /\ rcs[r].count = rcs[r].handles
                     /\ rcs[r].freed = 0
                     /\ rcs[r].dropped = 0
               /\ rcs[r].handles = 0 => rcs[r].freed = 1 /\ rcs[r].dropped = 1)
    /\ []("double_drop_detected" \notin faults /\ "use_after_free" \notin faults)
    /\ [][\A r \in RcNames :
             (rcs[r] # NoRc /\ rcs'[r].freed # rcs[r].freed /\ rcs'[r].freed # 0) =>
                /\ RcDrop(r)
                /\ rcs[r].count = 1
                /\ rcs[r].handles = 1]_vars

\* One value is behind as many handles as can be, the other has lost its
\* last handle and is gone.
C32_Witness ==
    /\ rcs["a"].handles = MaxStrong
    /\ rcs["a"].count = MaxStrong
    /\ rcs["b"].handles = 0
    /\ rcs["b"].freed = 1


----------------------------------------------------------------------------
\* Claims about the order of steps in Drop for MyArc, and about counter width

\* The positions whose step begins with fence(Ordering::Acquire): the second
\* drop of the box in Drop for MyArc, and the drop of the box in Drop for
\* MyWeak. The first drop of the box in Drop for MyArc has no fence before it.
FencedSteps == {"drop_dealloc", "wdrop_box"}

\* Thread t takes the step of the strong drop that stands at position p.
DropStepAt(t, p) == pc[t] = p /\ pc'[t] # p

\* C33: in the strong drop that found strong_count == 1, the step after the
\* decrement begins with an acquire fence and destroys the payload without
\* freeing the block; the weak decrement that follows is made on the block
\* while it is allocated; and the last step, taken only if that decrement
\* found 1, begins with an acquire fence and frees the block, once.
C33_StrongDropOrder ==
    [][\A t \in Threads :
          /\ DropStepAt(t, "drop_box") =>
                /\ "drop_box" \in FencedSteps
                /\ dropped' = dropped + 1
                /\ freed' = freed
          /\ DropStepAt(t, "drop_weak") => Allocated
          /\ DropStepAt(t, "drop_dealloc") =>
                /\ "drop_dealloc" \in FencedSteps
                /\ freed = 0
                /\ freed' = 1]_vars


\* std::mem::forget of a strong handle: the handle is gone for good, and the
\* count it was given stays in strong.
ForgetStrong(t) ==
    /\ pc[t] = "idle"
    /\ idleStrong >= 1
    /\ idleStrong' = idleStrong - 1
    /\ UNCHANGED <<strong, weak, value, freed, dropped, moved, uaf, idleWeak, pc,
                   strong_count, got>>
    /\ Track
    /\ UNCHANGED containerVars

\* std::mem::forget of a weak handle
ForgetWeak(t) ==
    /\ pc[t] = "idle"
    /\ idleWeak >= 1
    /\ idleWeak' = idleWeak - 1
    /\ UNCHANGED <<strong, weak, value, freed, dropped, moved, uaf, idleStrong, pc,
                   strong_count, got>>
    /\ Track
    /\ UNCHANGED containerVars

\* Handles are made and leaked, none is dropped; either build profile.
InitLeak ==
    /\ ArcNew
    /\ mem = [b \in Bufs |-> Free]
    /\ dqs = [d \in DequeNames |-> NoDeque]
    /\ it = NoIter
    /\ yielded = <<>>
    /\ vec = NoVec
    /\ ret = NoRet
    /\ faults = {}
    /\ overflow_checks \in BOOLEAN
    /\ list = NoList
    /\ rcs = [r \in RcNames |-> NoRc]

NextLeak ==
    \E t \in Threads :
        \/ Clone(t)
        \/ Downgrade(t)
        \/ WeakClone(t)
        \/ UpgradeLoad(t)
        \/ UpgradeCas(t)
        \/ ForgetStrong(t)
        \/ ForgetWeak(t)
        \/ Return(t)

SpecLeak == InitLeak /\ [][NextLeak]_vars

\* C34: with counters CounterBits wide, and handles that are made and leaked
\* but never dropped, no clone, upgrade or downgrade takes a counter from a
\* value to a smaller one, and a counter that is 0 means that no handle of its
\* kind is live (for weak: no weak handle and no strong handle).
C34_CountersNeverWrap ==
    /\ [](strong = 0 => LiveStrong = 0)
    /\ [](weak = 0 => (LiveWeak = 0 /\ LiveStrong = 0))
    /\ [][strong' >= strong /\ weak' >= weak]_vars

====
